---- MODULE Spec2Model ----
(***************************************************************************)
(* A model of src/advanced-vector/vector.h: RawMemory<T>, the owner of one *)
(* block of raw storage, and Vector<T>, the growable array built on it.    *)
(*                                                                         *)
(* The heap is a finite set of blocks; a block is a sequence of slots, and *)
(* a slot is raw memory, a constructed element holding a value, or a       *)
(* constructed element that has been moved from.  Every public operation   *)
(* is one action.  An operation that calls into the element type (a        *)
(* constructor, an assignment) or into the allocator takes a fault f: the  *)
(* f.k-th call of kind f.kind made inside the operation throws.            *)
(***************************************************************************)
EXTENDS Integers, Sequences, FiniteSets, TLC

\* ------------------------------------------------------------------ bounds
\* The largest capacity an allocation may have.
MaxCap == 4
\* The largest capacity reached by PushBack calls alone.
MaxPushCap == 8
\* The largest capacity of a vector where two vectors live side by side.
MaxCapTwo == 2
\* The largest capacity asked of Reserve.
MaxReserve == 2
\* The number of block addresses of the heap.
MaxBlocks == 3
\* The largest number of operations that throw in one behaviour.
MaxFaults == 1
\* The width of size_t in bits, scaled down (2^SizeBits > MaxCap + 1).
SizeBits == 4

\* ------------------------------------------------------------- vocabulary
NULL == 0
RAW == "raw"
MOVED == "moved"
Values == {"a", "b"}
Blocks == 1..MaxBlocks
VecIds == {1, 2}
RawIds == {1, 2, 3}

RECURSIVE Pow2(_)
Pow2(n) == IF n = 0 THEN 1 ELSE 2 * Pow2(n - 1)
\* size_t arithmetic
SizeMod == Pow2(SizeBits)
SizeT(n) == n % SizeMod

Min(a, b) == IF a < b THEN a ELSE b

VARIABLES
    mem,      \* the heap: blocks, instances leaked by the last operation, bad
              \* frees, destructors run on raw memory
    raw,      \* stand-alone RawMemory objects
    vec,      \* Vector objects
    ty,       \* the element type's capabilities
    ref,      \* per vector, the abstract sequence driven by its operations
    faults,   \* the number of operations that have thrown so far
    last      \* the last operation: what it was, its inputs, what it did

vars == <<mem, raw, vec, ty, ref, faults, last>>

failed == faults > 0

\* ------------------------------------------------------------------- heap
FreeBlock == [alloc |-> FALSE, slots |-> <<>>]
EmptyMem ==
    [blocks |-> [b \in Blocks |-> FreeBlock], leaked |-> 0, badFree |-> FALSE,
     badDestroy |-> FALSE]

IsLive(s) == s # RAW
LiveIn(slots) == Cardinality({k \in DOMAIN slots : IsLive(slots[k])})

\* The constructed elements of the allocated blocks.
LiveCount(m) ==
    LET RECURSIVE Sum(_)
        Sum(b) == IF b = 0 THEN 0 ELSE LiveIn(m.blocks[b].slots) + Sum(b - 1)
    IN  Sum(MaxBlocks)

HasFree(m) == \E b \in Blocks : ~m.blocks[b].alloc
NewAddr(m) == CHOOSE b \in Blocks : ~m.blocks[b].alloc /\ \A c \in Blocks : c < b => m.blocks[c].alloc

\* RawMemory::Allocate: the address, NULL for n = 0.
AllocAddr(m, n) == IF n # 0 THEN NewAddr(m) ELSE NULL
Allocate(m, n) ==
    IF n # 0
    THEN [m EXCEPT !.blocks[NewAddr(m)] = [alloc |-> TRUE, slots |-> [k \in 1..n |-> RAW]]]
    ELSE m

\* RawMemory::Deallocate: operator delete(buf).  Elements still constructed
\* in the block are never destroyed afterwards: they are leaked.
Deallocate(m, buf) ==
    IF buf = NULL THEN m
    ELSE IF ~m.blocks[buf].alloc THEN [m EXCEPT !.badFree = TRUE]
    ELSE [m EXCEPT !.blocks[buf] = FreeBlock,
                   !.leaked = @ + LiveIn(m.blocks[buf].slots)]

\* ------------------------------------------------------------- RawMemory
EmptyRaw == [buffer |-> NULL, capacity |-> 0]

\* RawMemory(size_t capacity)
RawMemoryNew(m, capacity) == [buffer |-> AllocAddr(m, capacity), capacity |-> capacity]

\* RawMemory(RawMemory&& other): <<the new object, other afterwards>>
RawMoveCtor(other) == <<other, EmptyRaw>>

\* RawMemory::Swap: <<this, other>> afterwards
RawSwap(this, other) == <<other, this>>

\* RawMemory::operator=(RawMemory&& rhs), this # &rhs: Deallocate(buffer_),
\* capacity_ = 0, Swap(rhs); buffer_ is not reset before the swap.
\* <<this, rhs, mem>> afterwards
RawMoveAssign(this, rhs, m) ==
    LET m1 == Deallocate(m, this.buffer)
        t1 == [this EXCEPT !.capacity = 0]
        sw == RawSwap(t1, rhs)
    IN  <<sw[1], sw[2], m1>>

\* ~RawMemory
RawDtor(this, m) == Deallocate(m, this.buffer)

\* std::swap(a, b) on RawMemory: tmp(move(a)); a = move(b); b = move(tmp); ~tmp
\* <<a, b, mem>> afterwards
StdSwapRaw(a, b, m) ==
    LET c1 == RawMoveCtor(a)
        tmp1 == c1[1]
        a1 == c1[2]
        s1 == RawMoveAssign(a1, b, m)
        a2 == s1[1]
        b1 == s1[2]
        s2 == RawMoveAssign(b1, tmp1, s1[3])
        b2 == s2[1]
        tmp2 == s2[2]
    IN  <<a2, b2, RawDtor(tmp2, s2[3])>>

\* ------------------------------------------------------ element operations
Slot(m, b, off) == m.blocks[b].slots[off + 1]

\* placement new at block b, offset off
ConstructAt(m, b, off, val) == [m EXCEPT !.blocks[b].slots[off + 1] = val]

\* std::destroy_n(b + off, n).  A destructor run on raw memory, where no
\* element is (any more), is recorded in badDestroy.
DestroyN(m, b, off, n) ==
    IF n = 0 THEN m
    ELSE [m EXCEPT !.blocks[b].slots =
                       [k \in DOMAIN @ |-> IF off < k /\ k <= off + n THEN RAW ELSE @[k]],
                   !.badDestroy =
                       @ \/ \E k \in DOMAIN m.blocks[b].slots :
                               off < k /\ k <= off + n /\ ~IsLive(m.blocks[b].slots[k])]

\* std::uninitialized_copy_n(sb + soff, n, db + doff), no copy throwing
UninitCopyN(m, sb, soff, n, db, doff) ==
    IF n = 0 THEN m
    ELSE [m EXCEPT !.blocks[db].slots =
            [k \in DOMAIN @ |-> IF doff < k /\ k <= doff + n
                                THEN m.blocks[sb].slots[k - doff + soff] ELSE @[k]]]

\* The sources of n move constructions or move assignments are left moved-from.
MovedFrom(m, sb, soff, n) ==
    IF n = 0 THEN m
    ELSE [m EXCEPT !.blocks[sb].slots =
            [k \in DOMAIN @ |-> IF soff < k /\ k <= soff + n THEN MOVED ELSE @[k]]]

\* std::uninitialized_move_n(sb + soff, n, db + doff), no move throwing
UninitMoveN(m, sb, soff, n, db, doff) ==
    MovedFrom(UninitCopyN(m, sb, soff, n, db, doff), sb, soff, n)

\* std::uninitialized_move_n whose j-th move construction throws: the j-1
\* elements built in the destination are destroyed again by the algorithm,
\* their sources stay moved-from.
UninitMoveNThrows(m, sb, soff, j) == MovedFrom(m, sb, soff, j - 1)

\* ------------------------------------------------------------------ faults
FaultKinds == {"alloc", "copy", "move", "massign", "casgn", "dflt"}
NoFault == [kind |-> "none", k |-> 0]
\* The faults of the given kinds that can strike an operation making at most
\* n calls of a kind (it allocates at most once).
Faults(kinds, n) ==
    {NoFault} \cup {x \in [kind : kinds \cap FaultKinds, k : 1..n] :
                        x.kind = "alloc" => x.k = 1}
\* The kinds of fault injected when faults are wanted.
Inject(faulty, kinds) == IF faulty THEN kinds ELSE {}

\* The element type can make a call of f's kind throw.
FaultOk(f) ==
    /\ f # NoFault => faults < MaxFaults
    /\ f.kind \in {"move", "massign"} => ~ty.nothrowMove
    /\ f.kind \in {"copy", "casgn"} => ty.copyable

\* Of the calls of `kind`, the f.k-th is among the cnt calls made after `before`.
Fails(f, kind, before, cnt) == f.kind = kind /\ before < f.k /\ f.k <= before + cnt

\* ------------------------------------------------------------------ Vector
EmptyVec == [alive |-> TRUE, data |-> EmptyRaw, size |-> 0]
DeadVec == [alive |-> FALSE, data |-> EmptyRaw, size |-> 0]

Size(v) == v.size
Capacity(v) == v.data.capacity

\* operator[](index)
At(m, v, index) == Slot(m, v.data.buffer, index)
Elems(m, v) == [k \in 1..v.size |-> At(m, v, k - 1)]

\* The test as it would be with the negation left out.
MovePathNoNegation(t) == t.nothrowMove \/ t.copyable
\* is_nothrow_move_constructible_v<T> || !is_copy_constructible_v<T>
MovePath(t) == t.nothrowMove \/ ~t.copyable

\* Growth by one slot instead of doubling.
GrowHalf(size) == IF size = 0 THEN 1 ELSE size + 1
\* size_ == 0 ? 1 : size_ * 2
Grow(size) == IF size = 0 THEN 1 ELSE size * 2

\* What an operation did: the heap and the vector afterwards, whether it
\* threw, whether it reallocated, how many existing elements it moved and
\* copied into new storage, and the position it returned.
Res(m, v, threw, realloc, moved, copied, ret) ==
    [m |-> m, v |-> v, threw |-> threw, realloc |-> realloc,
     moved |-> moved, copied |-> copied, ret |-> ret]

\* The tail of a reallocation with data_.Swap(new_data) left out.
SwapInNoSwap(m, v, nd, newSize) ==
    <<RawDtor(nd, DestroyN(m, v.data.buffer, 0, v.size)), [v EXCEPT !.size = newSize]>>
\* The tail of a reallocation: destroy_n(old), data_.Swap(new_data), ~new_data
SwapIn(m, v, nd, newSize) ==
    LET m1 == DestroyN(m, v.data.buffer, 0, v.size)
        sw == RawSwap(v.data, nd)
    IN  <<RawDtor(sw[2], m1), [v EXCEPT !.data = sw[1], !.size = newSize]>>

\* Vector::Reserve(new_capacity)
Reserve_(m, v, n, f) ==
    IF n <= Capacity(v) THEN Res(m, v, FALSE, FALSE, 0, 0, 0)
    ELSE IF Fails(f, "alloc", 0, 1) THEN Res(m, v, TRUE, TRUE, 0, 0, 0)
    ELSE
    LET nd == RawMemoryNew(m, n)
        m1 == Allocate(m, n)
        buf == v.data.buffer
    IN  IF MovePath(ty)
        THEN IF Fails(f, "move", 0, v.size)
             THEN Res(RawDtor(nd, UninitMoveNThrows(m1, buf, 0, f.k)), v,
                      TRUE, TRUE, f.k - 1, 0, 0)
             ELSE LET s == SwapIn(UninitMoveN(m1, buf, 0, v.size, nd.buffer, 0), v, nd, v.size)
                  IN  Res(s[1], s[2], FALSE, TRUE, v.size, 0, 0)
        ELSE IF Fails(f, "copy", 0, v.size)
             THEN Res(RawDtor(nd, m1), v, TRUE, TRUE, 0, f.k - 1, 0)
             ELSE LET s == SwapIn(UninitCopyN(m1, buf, 0, v.size, nd.buffer, 0), v, nd, v.size)
                  IN  Res(s[1], s[2], FALSE, TRUE, 0, v.size, 0)

\* Vector::EmplaceBack(args...): `how` is the constructor the arguments
\* select ("copy" for PushBack(const T&), "move" for PushBack(T&&)).
EmplaceBack_(m, v, val, how, f) ==
    LET size == v.size
        buf == v.data.buffer
    IN
    IF size < Capacity(v)
    THEN IF Fails(f, how, 0, 1) THEN Res(m, v, TRUE, FALSE, 0, 0, 0)
         ELSE Res(ConstructAt(m, buf, size, val), [v EXCEPT !.size = SizeT(size + 1)],
                  FALSE, FALSE, 0, 0, size)
    ELSE IF Fails(f, "alloc", 0, 1) THEN Res(m, v, TRUE, TRUE, 0, 0, 0)
    ELSE
    LET nd == RawMemoryNew(m, Grow(size))
        m1 == Allocate(m, Grow(size))
    IN  IF Fails(f, how, 0, 1) THEN Res(RawDtor(nd, m1), v, TRUE, TRUE, 0, 0, 0)
        ELSE
        LET m2 == ConstructAt(m1, nd.buffer, size, val)
            c0 == IF MovePath(ty) THEN (IF how = "move" THEN 1 ELSE 0)
                                  ELSE (IF how = "copy" THEN 1 ELSE 0)
        IN  IF MovePath(ty)
            THEN IF Fails(f, "move", c0, size)
                 THEN \* no handler: the new element is not destroyed
                      Res(RawDtor(nd, UninitMoveNThrows(m2, buf, 0, f.k - c0)), v,
                          TRUE, TRUE, f.k - c0 - 1, 0, 0)
                 ELSE LET s == SwapIn(UninitMoveN(m2, buf, 0, size, nd.buffer, 0),
                                      v, nd, SizeT(size + 1))
                      IN  Res(s[1], s[2], FALSE, TRUE, size, 0, size)
            ELSE IF Fails(f, "copy", c0, size)
                 THEN \* catch (...) { destroy_n(new_data + size_, 1); throw; }
                      Res(RawDtor(nd, DestroyN(m2, nd.buffer, size, 1)), v,
                          TRUE, TRUE, 0, f.k - c0 - 1, 0)
                 ELSE LET s == SwapIn(UninitCopyN(m2, buf, 0, size, nd.buffer, 0),
                                      v, nd, SizeT(size + 1))
                      IN  Res(s[1], s[2], FALSE, TRUE, 0, size, size)

\* Vector::PopBack, size_ > 0
PopBack_(m, v) ==
    Res(DestroyN(m, v.data.buffer, v.size - 1, 1), [v EXCEPT !.size = SizeT(v.size - 1)],
        FALSE, FALSE, 0, 0, 0)

\* Slots [0, size] of the block while Emplace shifts in place: the last
\* element move-constructed into slot size, then t backward move assignments.
ShiftedRight(m, buf, size, t) ==
    [m EXCEPT !.blocks[buf].slots =
        [k \in DOMAIN @ |->
            IF k = size + 1 THEN @[size]
            ELSE IF size - t < k /\ k <= size THEN @[k - 1]
            ELSE IF k = size - t THEN MOVED
            ELSE @[k]]]

\* Slots of the block after t forward move assignments of Erase at index.
ShiftedLeft(m, buf, index, t) ==
    IF t = 0 THEN m
    ELSE [m EXCEPT !.blocks[buf].slots =
            [k \in DOMAIN @ |->
                IF index < k /\ k <= index + t THEN @[k + 1]
                ELSE IF k = index + t + 1 THEN MOVED
                ELSE @[k]]]

\* Vector::ReallocateWithCopy(index, args...), then ++size_ of Emplace
ReallocateWithCopy(m, v, index, val, how, f) ==
    LET size == v.size
        buf == v.data.buffer
    IN
    IF Fails(f, "alloc", 0, 1) THEN Res(m, v, TRUE, TRUE, 0, 0, 0)
    ELSE
    LET nd == RawMemoryNew(m, Grow(size))
        m1 == Allocate(m, Grow(size))
    IN  IF Fails(f, how, 0, 1) THEN Res(RawDtor(nd, m1), v, TRUE, TRUE, 0, 0, 0)
        ELSE
        LET m2 == ConstructAt(m1, nd.buffer, index, val)
            c0 == IF how = "copy" THEN 1 ELSE 0
        IN  IF Fails(f, "copy", c0, index)
            THEN \* the first copy_n undoes itself; the handler destroys the new element
                 Res(RawDtor(nd, DestroyN(m2, nd.buffer, index, 1)), v,
                     TRUE, TRUE, 0, f.k - c0 - 1, 0)
            ELSE
            LET m3 == UninitCopyN(m2, buf, 0, index, nd.buffer, 0)
            IN  IF Fails(f, "copy", c0 + index, size - index)
                THEN \* the second copy_n undoes itself; the handler destroys the
                     \* new element only: the copied prefix stays constructed
                     Res(RawDtor(nd, DestroyN(m3, nd.buffer, index, 1)), v,
                         TRUE, TRUE, 0, f.k - c0 - 1, 0)
                ELSE LET m4 == UninitCopyN(m3, buf, index, size - index, nd.buffer, index + 1)
                         s == SwapIn(m4, v, nd, SizeT(size + 1))
                     IN  Res(s[1], s[2], FALSE, TRUE, 0, size, index)

\* Vector::ReallocateWithMove(index, args...), then ++size_ of Emplace
ReallocateWithMove(m, v, index, val, how, f) ==
    LET size == v.size
        buf == v.data.buffer
    IN
    IF Fails(f, "alloc", 0, 1) THEN Res(m, v, TRUE, TRUE, 0, 0, 0)
    ELSE
    LET nd == RawMemoryNew(m, Grow(size))
        m1 == Allocate(m, Grow(size))
    IN  IF Fails(f, how, 0, 1) THEN Res(RawDtor(nd, m1), v, TRUE, TRUE, 0, 0, 0)
        ELSE
        LET m2 == ConstructAt(m1, nd.buffer, index, val)
            c0 == IF how = "move" THEN 1 ELSE 0
        IN  IF Fails(f, "move", c0, index)
            THEN Res(RawDtor(nd, UninitMoveNThrows(m2, buf, 0, f.k - c0)), v,
                     TRUE, TRUE, f.k - c0 - 1, 0, 0)
            ELSE
            LET m3 == UninitMoveN(m2, buf, 0, index, nd.buffer, 0)
            IN  IF Fails(f, "move", c0 + index, size - index)
                THEN Res(RawDtor(nd, UninitMoveNThrows(m3, buf, index, f.k - c0 - index)), v,
                         TRUE, TRUE, f.k - c0 - 1, 0, 0)
                ELSE LET m4 == UninitMoveN(m3, buf, index, size - index, nd.buffer, index + 1)
                         s == SwapIn(m4, v, nd, SizeT(size + 1))
                     IN  Res(s[1], s[2], FALSE, TRUE, size, 0, index)

\* Vector::Emplace with free capacity and pos before end(): T tmp(args...),
\* the last element move-constructed at end(), move_backward, and
\* data_[index] = std::move(tmp); then ++size_
EmplaceInPlace(m, v, index, val, how, f) ==
    LET size == v.size
        buf == v.data.buffer
        n == size - 1 - index     \* the assignments of move_backward
        c0 == IF how = "move" THEN 1 ELSE 0
    IN
    IF Fails(f, how, 0, 1) \/ Fails(f, "move", c0, 1)
    THEN \* T tmp(args...) or new (end()) T(...) throws
         Res(m, v, TRUE, FALSE, 0, 0, 0)
    ELSE IF Fails(f, "massign", 0, n)
    THEN \* catch (...) { destroy_n(end(), 1); throw; }
         Res(DestroyN(ShiftedRight(m, buf, size, f.k - 1), buf, size, 1), v,
             TRUE, FALSE, 0, 0, 0)
    ELSE IF Fails(f, "massign", n, 1)
    THEN \* data_[index] = std::move(tmp) throws outside the try block
         Res(ShiftedRight(m, buf, size, n), v, TRUE, FALSE, 0, 0, 0)
    ELSE Res(ConstructAt(ShiftedRight(m, buf, size, n), buf, index, val),
             [v EXCEPT !.size = SizeT(size + 1)], FALSE, FALSE, 0, 0, index)

\* Emplace that ignores the position and appends.
EmplaceAtEnd_(m, v, index, val, how, f) == EmplaceBack_(m, v, val, how, f)

\* Emplace as it would be with ++size_ ahead of the work, never undone.
EmplaceCountsFirst_(m, v, index, val, how, f) ==
    LET R == IF index = v.size THEN EmplaceBack_(m, v, val, how, f)
             ELSE IF v.size < Capacity(v) THEN EmplaceInPlace(m, v, index, val, how, f)
             ELSE IF MovePath(ty) THEN ReallocateWithMove(m, v, index, val, how, f)
             ELSE ReallocateWithCopy(m, v, index, val, how, f)
    IN  [R EXCEPT !.v.size = SizeT(v.size + 1)]
\* Vector::Emplace(pos, args...), pos = begin() + index
Emplace_(m, v, index, val, how, f) ==
    IF index = v.size THEN EmplaceBack_(m, v, val, how, f)
    ELSE IF v.size < Capacity(v) THEN EmplaceInPlace(m, v, index, val, how, f)
    ELSE IF MovePath(ty) THEN ReallocateWithMove(m, v, index, val, how, f)
    ELSE ReallocateWithCopy(m, v, index, val, how, f)

\* Erase as it would be returning the position after the erased one.
EraseReturnsNext_(m, v, index, f) ==
    Res(DestroyN(ShiftedLeft(m, v.data.buffer, index, v.size - 1 - index),
                 v.data.buffer, v.size - 1, 1),
        [v EXCEPT !.size = SizeT(v.size - 1)], FALSE, FALSE, 0, 0, index + 1)
\* Erase as it would be without the std::move of the tail.
EraseNoShift_(m, v, index, f) ==
    Res(DestroyN(m, v.data.buffer, v.size - 1, 1), [v EXCEPT !.size = SizeT(v.size - 1)],
        FALSE, FALSE, 0, 0, index)
\* Vector::Erase(pos), pos = begin() + index < end()
Erase_(m, v, index, f) ==
    LET size == v.size
        buf == v.data.buffer
        n == size - 1 - index     \* the assignments of std::move
    IN
    IF Fails(f, "massign", 0, n)
    THEN Res(ShiftedLeft(m, buf, index, f.k - 1), v, TRUE, FALSE, 0, 0, 0)
    ELSE Res(DestroyN(ShiftedLeft(m, buf, index, n), buf, size - 1, 1),
             [v EXCEPT !.size = SizeT(size - 1)], FALSE, FALSE, 0, 0, index)

\* ------------------------------------------------------ the abstract side
InsertAt(s, p, x) == SubSeq(s, 1, p) \o <<x>> \o SubSeq(s, p + 1, Len(s))
RemoveAt(s, p) == SubSeq(s, 1, p) \o SubSeq(s, p + 2, Len(s))
Front(s) == SubSeq(s, 1, Len(s) - 1)

\* -------------------------------------------------------------- the steps
Types == [nothrowMove : BOOLEAN, copyable : BOOLEAN]
Hows == {"copy", "move"}

\* A vector on which calls are within their contracts.
Usable(v) == v.alive /\ v.size <= Capacity(v)

\* A reallocation to Grow(size) fits the heap of the model, capacities up to cap.
CanGrow(m, v, cap) == Grow(v.size) <= cap /\ HasFree(m)

\* The heap as an operation finds it: nothing leaked by it yet.
Heap == [mem EXCEPT !.leaked = 0]

\* The operation `op` on vec[i] with outcome R; absRef is the abstract
\* sequence after the operation when it does not throw.
Commit(i, op, f, R, pos, val, absRef) ==
    /\ f = NoFault \/ R.threw      \* an injected fault is one that strikes
    /\ mem' = R.m
    /\ vec' = [vec EXCEPT ![i] = R.v]
    /\ last' = [op |-> op, id |-> i, threw |-> R.threw, realloc |-> R.realloc,
                moved |-> R.moved, copied |-> R.copied, ret |-> R.ret,
                pos |-> pos, val |-> val, fault |-> IF R.threw THEN f.kind ELSE "none"]
    /\ faults' = faults + (IF R.threw THEN 1 ELSE 0)
    /\ ref' = IF faults' > 0 THEN [j \in VecIds |-> <<>>] ELSE [ref EXCEPT ![i] = absRef]
    /\ UNCHANGED <<raw, ty>>

PushBack(i, faulty, cap) ==
    \E val \in Values, how \in Hows,
       f \in Faults(Inject(faulty, {"alloc", "copy", "move"}), vec[i].size + 1) :
        /\ Usable(vec[i]) /\ FaultOk(f)
        /\ how = "copy" => ty.copyable
        /\ vec[i].size < Capacity(vec[i]) \/ CanGrow(mem, vec[i], cap)
        /\ Commit(i, "PushBack", f, EmplaceBack_(Heap, vec[i], val, how, f),
                  vec[i].size, val, Append(ref[i], val))

Insert(i, faulty, cap) ==
    \E pos \in 0..vec[i].size, val \in Values, how \in Hows,
       f \in Faults(Inject(faulty, {"alloc", "copy", "move", "massign"}), vec[i].size + 1) :
        /\ Usable(vec[i]) /\ FaultOk(f)
        /\ how = "copy" => ty.copyable
        /\ vec[i].size < Capacity(vec[i]) \/ CanGrow(mem, vec[i], cap)
        /\ Commit(i, "Insert", f, Emplace_(Heap, vec[i], pos, val, how, f),
                  pos, val, InsertAt(ref[i], pos, val))

Erase(i, faulty) ==
    \E pos \in 0..(vec[i].size - 1), f \in Faults(Inject(faulty, {"massign"}), vec[i].size) :
        /\ Usable(vec[i]) /\ FaultOk(f)
        /\ Commit(i, "Erase", f, Erase_(Heap, vec[i], pos, f), pos, RAW,
                  RemoveAt(ref[i], pos))

PopBack(i) ==
    /\ Usable(vec[i])
    /\ vec[i].size > 0
    /\ Commit(i, "PopBack", NoFault, PopBack_(Heap, vec[i]), vec[i].size - 1, RAW,
              Front(ref[i]))

Reserve(i, faulty, cap) ==
    \E n \in 0..Min(MaxReserve, cap), f \in Faults(Inject(faulty, {"alloc", "copy", "move"}), vec[i].size + 1) :
        /\ Usable(vec[i]) /\ FaultOk(f)
        /\ n > Capacity(vec[i]) => HasFree(mem)
        /\ Commit(i, "Reserve", f, Reserve_(Heap, vec[i], n, f), n, RAW, ref[i])

InitWith(types) ==
    /\ mem = EmptyMem
    /\ raw = [r \in RawIds |-> [alive |-> FALSE, rm |-> EmptyRaw]]
    /\ vec = [i \in VecIds |-> IF i = 1 THEN EmptyVec ELSE DeadVec]
    /\ ty \in types
    /\ ref = [i \in VecIds |-> <<>>]
    /\ faults = 0
    /\ last = [op |-> "init"]

Init == InitWith(Types)

Next ==
    \/ PushBack(1, TRUE, MaxCap)
    \/ Insert(1, TRUE, MaxCap)
    \/ Erase(1, TRUE)
    \/ PopBack(1)
    \/ Reserve(1, TRUE, MaxCap)

Spec == Init /\ [][Next]_vars

\* PushBack calls that succeed, with room to double MaxPushCap times over.
PushBackOnly ==
    \E val \in Values, how \in Hows :
        /\ Usable(vec[1])
        /\ how = "copy" => ty.copyable
        /\ \/ vec[1].size < Capacity(vec[1])
           \/ Grow(vec[1].size) <= MaxPushCap /\ HasFree(mem)
        /\ Commit(1, "PushBack", NoFault, EmplaceBack_(Heap, vec[1], val, how, NoFault),
                  vec[1].size, val, Append(ref[1], val))

SpecPush == Init /\ [][PushBackOnly]_vars

\* Vector::PopBack with size_ = 0, outside its contract: the code tests
\* nothing, destroys the object "at" data_ + size_ - 1 and decrements size_.
\* What a build does is either to carry on with size_ wrapped around, or to
\* fault in the destructor call, which ends the process.
PopBackEmpty(i) ==
    /\ Usable(vec[i])
    /\ vec[i].size = 0
    /\ \/ /\ vec' = [vec EXCEPT ![i].size = SizeT(vec[i].size - 1)]
          /\ mem' = mem
          /\ last' = [op |-> "PopBackEmpty", id |-> i, threw |-> FALSE, fault |-> "none"]
       \/ /\ vec' = [j \in VecIds |-> DeadVec]
          /\ mem' = EmptyMem
          /\ last' = [op |-> "PopBackEmpty", id |-> i, threw |-> FALSE, fault |-> "crash"]
    /\ UNCHANGED <<raw, ty, ref, faults>>

NextPop ==
    \/ Next
    \/ PopBackEmpty(1)

SpecPop == Init /\ [][NextPop]_vars

\* ------------------------------------------------- RawMemory on its own
RawStep(op, d, s, newRaw, newMem) ==
    /\ raw' = newRaw
    /\ mem' = newMem
    /\ last' = [op |-> op, id |-> d, src |-> s]
    /\ UNCHANGED <<vec, ty, ref, faults>>

\* RawMemory r(capacity)
RawConstruct(r) ==
    \E c \in 0..MaxReserve :
        /\ ~raw[r].alive
        /\ c # 0 => HasFree(mem)
        /\ RawStep("RawMemory", r, r,
                   [raw EXCEPT ![r] = [alive |-> TRUE, rm |-> RawMemoryNew(mem, c)]],
                   Allocate(mem, c))

\* RawMemory d(std::move(s))
RawMoveConstruct(d, s) ==
    /\ ~raw[d].alive /\ raw[s].alive
    /\ LET c == RawMoveCtor(raw[s].rm)
       IN  RawStep("RawMoveCtor", d, s,
                   [raw EXCEPT ![d] = [alive |-> TRUE, rm |-> c[1]], ![s].rm = c[2]],
                   mem)

\* d = std::move(s)
RawMoveAssignment(d, s) ==
    /\ raw[d].alive /\ raw[s].alive
    /\ IF d = s
       THEN RawStep("RawMoveAssign", d, s, raw, mem)
       ELSE LET a == RawMoveAssign(raw[d].rm, raw[s].rm, mem)
            IN  RawStep("RawMoveAssign", d, s,
                        [raw EXCEPT ![d].rm = a[1], ![s].rm = a[2]], a[3])

\* d.Swap(s)
RawSwapping(d, s) ==
    /\ raw[d].alive /\ raw[s].alive
    /\ d # s
    /\ LET w == RawSwap(raw[d].rm, raw[s].rm)
       IN  RawStep("RawSwap", d, s, [raw EXCEPT ![d].rm = w[1], ![s].rm = w[2]], mem)

\* the end of r's lifetime
RawDestroy(r) ==
    /\ raw[r].alive
    /\ RawStep("~RawMemory", r, r,
               [raw EXCEPT ![r] = [alive |-> FALSE, rm |-> EmptyRaw]],
               RawDtor(raw[r].rm, mem))

NextRaw ==
    \/ \E r \in RawIds : RawConstruct(r)
    \/ \E d, s \in RawIds : RawMoveConstruct(d, s)
    \/ \E d, s \in RawIds : RawMoveAssignment(d, s)
    \/ \E d, s \in RawIds : RawSwapping(d, s)
    \/ \E r \in RawIds : RawDestroy(r)

\* RawMemory never looks at what T can do.
InitRaw == InitWith({[nothrowMove |-> TRUE, copyable |-> TRUE]})

SpecRaw == InitRaw /\ [][NextRaw]_vars

\* ------------------------------------------------------------ two Vectors
\* Vector::Swap: std::swap(data_, other.data_); std::swap(size_, other.size_)
\* <<this, other, mem>> afterwards
\* (VecSwapDataOnly: the swap as it would be without the second line)
VecSwapDataOnly(this, other, m) ==
    LET w == StdSwapRaw(this.data, other.data, m)
    IN  <<[this EXCEPT !.data = w[1]], [other EXCEPT !.data = w[2]], w[3]>>
VecSwap(this, other, m) ==
    LET w == StdSwapRaw(this.data, other.data, m)
    IN  <<[this EXCEPT !.data = w[1], !.size = other.size],
          [other EXCEPT !.data = w[2], !.size = this.size], w[3]>>

\* A destructor that releases the block without destroying the elements.
VecDtorNoDestroy(m, v) == RawDtor(v.data, m)
\* ~Vector: destroy_n(data_, size_), then ~RawMemory
VecDtor(m, v) == RawDtor(v.data, DestroyN(m, v.data.buffer, 0, v.size))

\* An operation on the two vectors d and s that leaves them as vd and vs.
Commit2(op, d, s, vd, vs, m) ==
    /\ mem' = m
    /\ vec' = [vec EXCEPT ![d] = vd, ![s] = vs]
    /\ last' = [op |-> op, id |-> d, src |-> s, threw |-> FALSE, fault |-> "none"]
    /\ ref' = [j \in VecIds |-> IF Usable(vec'[j]) THEN Elems(m, vec'[j]) ELSE <<>>]
    /\ UNCHANGED <<raw, ty, faults>>

\* Vector v;
DefaultConstruct(i) ==
    /\ ~vec[i].alive
    /\ Commit2("Vector", i, i, EmptyVec, EmptyVec, Heap)

\* the end of vec[i]'s lifetime
Destroy(i) ==
    /\ Usable(vec[i])
    /\ Commit2("~Vector", i, i, DeadVec, DeadVec, VecDtor(Heap, vec[i]))

\* Vector d(std::move(s)): the members' initializers, then Swap(rhs)
MoveConstruct(d, s) ==
    /\ ~vec[d].alive /\ Usable(vec[s])
    /\ LET w == VecSwap(EmptyVec, vec[s], Heap)
       IN  Commit2("MoveCtor", d, s, w[1], w[2], w[3])

\* d = std::move(s): if (this != &rhs) Swap(rhs)
MoveAssign(d, s) ==
    /\ Usable(vec[d]) /\ Usable(vec[s])
    /\ IF d = s
       THEN Commit2("MoveAssign", d, s, vec[d], vec[s], Heap)
       ELSE LET w == VecSwap(vec[d], vec[s], Heap)
            IN  Commit2("MoveAssign", d, s, w[1], w[2], w[3])

NextTwo ==
    \/ \E i \in VecIds : PushBack(i, FALSE, MaxCapTwo)
    \/ \E i \in VecIds : Insert(i, FALSE, MaxCapTwo)
    \/ \E i \in VecIds : Erase(i, FALSE)
    \/ \E i \in VecIds : PopBack(i)
    \/ \E i \in VecIds : Reserve(i, FALSE, MaxCapTwo)
    \/ \E i \in VecIds : DefaultConstruct(i)
    \/ \E i \in VecIds : Destroy(i)
    \/ \E d, s \in VecIds : MoveConstruct(d, s)
    \/ \E d, s \in VecIds : MoveAssign(d, s)

SpecTwo == Init /\ [][NextTwo]_vars

\* ------------------------------------------------------- copies of vectors
\* What a constructor or an assignment did: the heap and the object
\* afterwards, and whether it threw.
Made(m, v, threw) == [m |-> m, v |-> v, threw |-> threw]

\* A copy constructor that shares the block of the source.
CopyCtorShallow_(m, other, f) == Made(m, other, FALSE)
\* Vector(const Vector& other): data_(other.size_), size_(other.size_),
\* uninitialized_copy_n.  When a copy throws, the algorithm destroys the
\* copies it made and ~RawMemory releases the block of the member data_.
CopyCtor_(m, other, f) ==
    IF other.size # 0 /\ Fails(f, "alloc", 0, 1) THEN Made(m, DeadVec, TRUE)
    ELSE
    LET nd == RawMemoryNew(m, other.size)
        m1 == Allocate(m, other.size)
    IN  IF Fails(f, "copy", 0, other.size) THEN Made(RawDtor(nd, m1), DeadVec, TRUE)
        ELSE Made(UninitCopyN(m1, other.data.buffer, 0, other.size, nd.buffer, 0),
                  [alive |-> TRUE, data |-> nd, size |-> other.size], FALSE)

\* Copy assignment left without the reallocating branch.
CopyAssignInPlaceOnly_(m, this, rhs, f) ==
    Made(UninitCopyN(m, rhs.data.buffer, 0, Min(rhs.size, Capacity(this)), this.data.buffer, 0),
         [this EXCEPT !.size = Min(rhs.size, Capacity(this))], FALSE)
\* Copy assignment that keeps the surplus elements of the destination.
CopyAssignKeepsSurplus_(m, this, rhs, f) ==
    Made(UninitCopyN(m, rhs.data.buffer, 0, rhs.size, this.data.buffer, 0),
         [this EXCEPT !.size = IF rhs.size > this.size THEN rhs.size ELSE this.size], FALSE)
\* Vector::operator=(const Vector& rhs), this # &rhs
CopyAssign_(m, this, rhs, f) ==
    IF rhs.size > Capacity(this)
    THEN \* Vector crhs(rhs); Swap(crhs); ~crhs
         LET c == CopyCtor_(m, rhs, f)
             w == VecSwap(this, c.v, c.m)
         IN  IF c.threw THEN Made(c.m, this, TRUE)
             ELSE Made(VecDtor(w[3], w[2]), w[1], FALSE)
    ELSE
    LET new_size == Min(this.size, rhs.size)
        buf == this.data.buffer
        src == rhs.data.buffer
    IN  IF Fails(f, "casgn", 0, new_size)
        THEN \* std::copy: the assignments before the one that throws are done
             Made(UninitCopyN(m, src, 0, f.k - 1, buf, 0), this, TRUE)
        ELSE
        LET m1 == UninitCopyN(m, src, 0, new_size, buf, 0)
        IN  IF rhs.size < this.size
            THEN Made(DestroyN(m1, buf, new_size, this.size - new_size),
                      [this EXCEPT !.size = rhs.size], FALSE)
            ELSE IF Fails(f, "copy", 0, rhs.size - this.size)
            THEN \* uninitialized_copy_n undoes itself; size_ is not yet assigned
                 Made(m1, this, TRUE)
            ELSE Made(UninitCopyN(m1, src, this.size, rhs.size - this.size, buf, this.size),
                      [this EXCEPT !.size = rhs.size], FALSE)

\* An operation on the vectors d and s, which may throw, that leaves d as vd.
Commit2F(op, d, s, f, R) ==
    /\ f = NoFault \/ R.threw
    /\ mem' = R.m
    /\ vec' = [vec EXCEPT ![d] = R.v]
    /\ last' = [op |-> op, id |-> d, src |-> s, threw |-> R.threw,
                fault |-> IF R.threw THEN f.kind ELSE "none"]
    /\ faults' = faults + (IF R.threw THEN 1 ELSE 0)
    /\ ref' = [j \in VecIds |-> IF Usable(vec'[j]) THEN Elems(R.m, vec'[j]) ELSE <<>>]
    /\ UNCHANGED <<raw, ty>>

\* Vector d(s);
CopyConstruct(d, s, faulty) ==
    \E f \in Faults(Inject(faulty, {"alloc", "copy"}), vec[s].size) :
        /\ ~vec[d].alive /\ Usable(vec[s]) /\ FaultOk(f)
        /\ ty.copyable
        /\ vec[s].size # 0 => HasFree(mem)
        /\ Commit2F("CopyCtor", d, s, f, CopyCtor_(Heap, vec[s], f))

\* d = s;
CopyAssign(d, s, faulty) ==
    \E f \in Faults(Inject(faulty, {"alloc", "copy", "casgn"}), vec[s].size) :
        /\ Usable(vec[d]) /\ Usable(vec[s]) /\ FaultOk(f)
        /\ ty.copyable
        /\ vec[s].size > Capacity(vec[d]) => HasFree(mem)
        /\ IF d = s
           THEN f = NoFault /\ Commit2F("CopyAssign", d, s, f, Made(Heap, vec[d], FALSE))
           ELSE Commit2F("CopyAssign", d, s, f, CopyAssign_(Heap, vec[d], vec[s], f))

\* v[index] = val;
Write(i) ==
    \E index \in 0..(vec[i].size - 1), val \in Values :
        /\ Usable(vec[i])
        /\ Commit(i, "Write", NoFault,
                  Res(ConstructAt(Heap, vec[i].data.buffer, index, val), vec[i],
                      FALSE, FALSE, 0, 0, index),
                  index, val, [ref[i] EXCEPT ![index + 1] = val])

\* A vector and the copies made of it: vec[2] comes to life only as a copy
\* of vec[1].
InitCopy == InitWith({t \in Types : t.copyable})

NextCopy ==
    \/ \E i \in VecIds : PushBack(i, FALSE, MaxCapTwo)
    \/ \E i \in VecIds : Insert(i, FALSE, MaxCapTwo)
    \/ \E i \in VecIds : Erase(i, FALSE)
    \/ \E i \in VecIds : PopBack(i)
    \/ \E i \in VecIds : Write(i)
    \/ CopyConstruct(2, 1, TRUE)
    \/ \E d, s \in VecIds : CopyAssign(d, s, TRUE)
    \/ Destroy(2)

SpecCopy == InitCopy /\ [][NextCopy]_vars

\* ----------------------------------------------------------- self-insertion
\* A read of a[k] made after the elements from index on have been shifted.
ReadArgShifted(m, v, index, k) ==
    IF k < index THEN At(m, v, k)
    ELSE IF k = index THEN MOVED
    ELSE At(m, v, k - 1)
\* The value T(args...) reads through an argument that refers to a[k], for an
\* Emplace at index.  In each branch the construction from the arguments is
\* the first statement to touch an element (vector.h:210, 215, 245, 270,
\* 288): the elements are still as the caller left them.
ReadArg(m, v, index, k) == At(m, v, k)

\* a.Insert(a.begin() + pos, a[0]): Insert(const_iterator, const T&)
InsertSelf(i) ==
    \E pos \in 0..vec[i].size :
        /\ Usable(vec[i]) /\ vec[i].size > 0
        /\ ty.copyable
        /\ vec[i].size < Capacity(vec[i]) \/ CanGrow(mem, vec[i], MaxCap)
        /\ Commit(i, "InsertSelf", NoFault,
                  Emplace_(Heap, vec[i], pos, ReadArg(Heap, vec[i], pos, 0), "copy", NoFault),
                  pos, RAW, InsertAt(ref[i], pos, ref[i][1]))

NextSelf ==
    \/ PushBack(1, FALSE, MaxCap)
    \/ Insert(1, FALSE, MaxCap)
    \/ Erase(1, FALSE)
    \/ Reserve(1, FALSE, MaxCap)
    \/ InsertSelf(1)

SpecSelf == InitCopy /\ [][NextSelf]_vars

\* ------------------------------------------------------------------ Resize
\* The value of a value-initialized element, T().
DefaultValue == "a"

\* std::uninitialized_value_construct_n(b + off, n), no constructor throwing
UninitValueConstructN(m, b, off, n) ==
    IF n = 0 THEN m
    ELSE [m EXCEPT !.blocks[b].slots =
            [k \in DOMAIN @ |-> IF off < k /\ k <= off + n THEN DefaultValue ELSE @[k]]]

\* Vector::Resize(new_size).  When a default construction throws, the
\* algorithm destroys the elements it built; the Reserve before it stands.
Resize_(m, v, new_size, f) ==
    IF new_size < v.size
    THEN Res(DestroyN(m, v.data.buffer, new_size, v.size - new_size),
             [v EXCEPT !.size = new_size], FALSE, FALSE, 0, 0, 0)
    ELSE
    LET R == Reserve_(m, v, new_size, f)
    IN  IF R.threw THEN R
        ELSE IF Fails(f, "dflt", 0, new_size - v.size) THEN [R EXCEPT !.threw = TRUE]
        ELSE [R EXCEPT !.m = UninitValueConstructN(R.m, R.v.data.buffer, v.size,
                                                   new_size - v.size),
                       !.v.size = new_size]

\* The abstract sequence cut or padded to length n.
Resized(s, n) == [k \in 1..n |-> IF k <= Len(s) THEN s[k] ELSE DefaultValue]

Resize(i, faulty, cap) ==
    \E n \in 0..cap, f \in Faults(Inject(faulty, {"alloc", "copy", "move", "dflt"}), cap) :
        /\ Usable(vec[i]) /\ FaultOk(f)
        /\ n > Capacity(vec[i]) => HasFree(mem)
        /\ Commit(i, "Resize", f, Resize_(Heap, vec[i], n, f), n, RAW, Resized(ref[i], n))

NextResize ==
    \/ PushBack(1, FALSE, MaxCap)
    \/ PopBack(1)
    \/ Resize(1, TRUE, MaxCap)

SpecResize == Init /\ [][NextResize]_vars

\* --------------------------------------------------------------- lifetimes
\* explicit Vector(size_t size): data_(size), size_(size),
\* uninitialized_value_construct_n
SizedCtor_(m, size, f) ==
    IF size # 0 /\ Fails(f, "alloc", 0, 1) THEN Made(m, DeadVec, TRUE)
    ELSE
    LET nd == RawMemoryNew(m, size)
        m1 == Allocate(m, size)
    IN  IF Fails(f, "dflt", 0, size) THEN Made(RawDtor(nd, m1), DeadVec, TRUE)
        ELSE Made(UninitValueConstructN(m1, nd.buffer, 0, size),
                  [alive |-> TRUE, data |-> nd, size |-> size], FALSE)

\* Vector v(size);
SizedConstruct(i, cap) ==
    \E size \in 0..cap :
        /\ ~vec[i].alive
        /\ size # 0 => HasFree(mem)
        /\ Commit2F("Vector(size)", i, i, NoFault, SizedCtor_(Heap, size, NoFault))

\* d.Swap(s);
Swapping(d, s) ==
    /\ Usable(vec[d]) /\ Usable(vec[s])
    /\ IF d = s
       THEN Commit2("Swap", d, s, vec[d], vec[s], Heap)
       ELSE LET w == VecSwap(vec[d], vec[s], Heap)
            IN  Commit2("Swap", d, s, w[1], w[2], w[3])

\* The end of vec[i]'s lifetime, with what it had to destroy and release.
Destruct(i) ==
    /\ Usable(vec[i])
    /\ mem' = VecDtor(Heap, vec[i])
    /\ vec' = [vec EXCEPT ![i] = DeadVec]
    /\ last' = [op |-> "~Vector", id |-> i, src |-> i, threw |-> FALSE, fault |-> "none",
                elements |-> vec[i].size,
                blocks |-> IF vec[i].data.buffer # NULL THEN 1 ELSE 0]
    /\ ref' = [ref EXCEPT ![i] = <<>>]
    /\ UNCHANGED <<raw, ty, faults>>

\* Every public operation of Vector, none failing, on vectors that are
\* constructed and destroyed at will.
NextLife ==
    \/ \E i \in VecIds : DefaultConstruct(i)
    \/ \E i \in VecIds : SizedConstruct(i, MaxCapTwo)
    \/ \E d, s \in VecIds : CopyConstruct(d, s, FALSE)
    \/ \E d, s \in VecIds : MoveConstruct(d, s)
    \/ \E d, s \in VecIds : CopyAssign(d, s, FALSE)
    \/ \E d, s \in VecIds : MoveAssign(d, s)
    \/ \E d, s \in VecIds : Swapping(d, s)
    \/ \E i \in VecIds : Reserve(i, FALSE, MaxCapTwo)
    \/ \E i \in VecIds : Resize(i, FALSE, MaxCapTwo)
    \/ \E i \in VecIds : PushBack(i, FALSE, MaxCapTwo)
    \/ \E i \in VecIds : PopBack(i)
    \/ \E i \in VecIds : Insert(i, FALSE, MaxCapTwo)
    \/ \E i \in VecIds : Erase(i, FALSE)
    \/ \E i \in VecIds : Destruct(i)

SpecLife == InitCopy /\ [][NextLife]_vars

\* ------------------------------------------------------------- properties
V1 == vec[1]
\* v1 in heap m1 and v2 in heap m2 have the same length, capacity and elements.
SameContents(m1, v1, m2, v2) ==
    /\ v1.size = v2.size
    /\ Capacity(v1) = Capacity(v2)
    /\ \A k \in 0..(v1.size - 1) : At(m1, v1, k) = At(m2, v2, k)

\* An operation that had to acquire new storage.
GrowthOps == {"Reserve", "PushBack", "Insert"}

\* C1: as long as no operation has failed, Size() is the length of the
\* abstract sequence driven by the same PushBack, Insert, Erase, PopBack (and
\* Reserve) calls, and operator[](i) is its element at position i.
C1_RefinesSequence ==
    ~failed =>
        /\ Size(V1) = Len(ref[1])
        /\ \A k \in 0..(Size(V1) - 1) : At(mem, V1, k) = ref[1][k + 1]

C1_Witness ==
    /\ ~failed
    /\ last.op = "Erase" /\ last.pos = 0
    /\ ref[1] = <<"b", "a">>
    /\ Capacity(V1) = 4

\* C2: after every operation, returned or thrown, 0 <= length <= capacity,
\* the slots [0, length) hold constructed elements and the slots
\* [length, capacity) are raw memory.
C2_LiveExactlyBelowSize ==
    \A i \in VecIds : vec[i].alive =>
        /\ 0 <= vec[i].size /\ vec[i].size <= Capacity(vec[i])
        /\ \A k \in 0..(Capacity(vec[i]) - 1) :
              IsLive(At(mem, vec[i], k)) <=> k < vec[i].size

\* C3: for a type that is copied on reallocation, a copy constructor that
\* throws during a forced reallocation leaves the length, the capacity and
\* the element values as they were before the call.
C3_CopyFailureKeepsState ==
    [][(/\ last'.op \in GrowthOps /\ last'.realloc
        /\ last'.threw /\ last'.fault = "copy"
        /\ ~ty.nothrowMove /\ ty.copyable)
       => SameContents(mem', vec'[1], mem, vec[1])]_vars

C3_Witness ==
    /\ last.op = "Insert" /\ last.realloc /\ last.pos = 1
    /\ last.threw /\ last.fault = "copy" /\ last.copied = 1
    /\ ~ty.nothrowMove /\ ty.copyable
    /\ Size(V1) = 2

\* C4: when a copy constructor throws during a forced reallocation, every
\* element constructed in the new storage has been destroyed before the
\* exception leaves the call: no instance is leaked, and as many instances
\* are live as before the call.
C4_CopyFailureLeaksNothing ==
    [][(last'.op \in GrowthOps /\ last'.realloc /\ last'.threw /\ last'.fault = "copy")
       => /\ mem'.leaked = 0
          /\ LiveCount(mem') = LiveCount(mem)]_vars

\* C9 as stated: in a reallocation the existing elements of a type whose move
\* constructor can throw are never moved, whatever else the type can do.
C9_ThrowingMoveNeverMoved ==
    (last.op \in GrowthOps /\ last.realloc /\ ~ty.nothrowMove) => last.moved = 0

\* C9 amended: in a reallocation the existing elements of a type whose move
\* constructor can throw are copied and never moved when the type is
\* copy-constructible; the elements of any other type are moved, never copied.
C9_CopiedWhenCopyable ==
    (last.op \in GrowthOps /\ last.realloc) =>
        IF ~ty.nothrowMove /\ ty.copyable
        THEN last.moved = 0 /\ (~last.threw => last.copied = Len(Elems(mem, V1)) - (IF last.op = "Reserve" THEN 0 ELSE 1))
        ELSE last.copied = 0 /\ (~last.threw => last.moved = Len(Elems(mem, V1)) - (IF last.op = "Reserve" THEN 0 ELSE 1))

C9_Witness ==
    /\ last.op = "Insert" /\ last.realloc /\ ~last.threw
    /\ ~ty.nothrowMove /\ ty.copyable
    /\ last.copied = 2 /\ last.pos = 1

C6_RawMoveEmptiesSource ==
    [][(last'.op \in {"RawMoveCtor", "RawMoveAssign"} /\ last'.id # last'.src)
       => /\ raw'[last'.src].rm = EmptyRaw
          /\ raw'[last'.id].rm = raw[last'.src].rm]_vars

\* C7: no block is passed to the deallocator twice.
C7_NoDoubleRelease == ~mem.badFree

\* C8: PopBack on an empty vector is reported as a fault, and the length
\* does not wrap around to 2^w - 1.
C8_EmptyPopBackReported ==
    last.op = "PopBackEmpty" =>
        /\ last.fault = "crash"
        /\ \A i \in VecIds : vec[i].size # SizeMod - 1

IsPow2(n) == \E e \in 0..SizeBits : n = Pow2(e)

\* C10: over consecutive successful PushBack calls on an empty vector, each
\* call adds one element, the capacity never decreases, it changes only from
\* 0 to 1 or to twice what it was, and after N calls it is a power of two
\* that is at least N.
C10_CapacityDoubles ==
    /\ [](Size(V1) > 0 => (IsPow2(Capacity(V1)) /\ Capacity(V1) >= Size(V1)))
    /\ [][/\ Size(vec'[1]) = Size(V1) + 1
          /\ Capacity(vec'[1]) >= Capacity(V1)
          /\ \/ Capacity(vec'[1]) = Capacity(V1)
             \/ Capacity(V1) = 0 /\ Capacity(vec'[1]) = 1
             \/ Capacity(vec'[1]) = 2 * Capacity(V1)]_vars

C10_Witness ==
    /\ last.op = "PushBack" /\ last.realloc
    /\ Size(V1) = 5 /\ Capacity(V1) = 8

\* C11: a Reserve(n) that returns leaves the length and every element value
\* as they were; with n <= Capacity() it also leaves the capacity, the
\* storage block and the heap as they were, and with n > Capacity() the
\* capacity afterwards is exactly n.  (last'.pos is n.)
C11_ReserveFrame ==
    [][(last'.op = "Reserve" /\ ~last'.threw)
       => /\ Size(vec'[1]) = Size(V1)
          /\ Elems(mem', vec'[1]) = Elems(mem, V1)
          /\ IF last'.pos <= Capacity(V1)
             THEN /\ Capacity(vec'[1]) = Capacity(V1)
                  /\ vec'[1].data.buffer = V1.data.buffer
                  /\ mem'.blocks = mem.blocks
                  /\ ~last'.realloc
             ELSE /\ Capacity(vec'[1]) = last'.pos
                  /\ last'.realloc]_vars

\* A Reserve(2) that reallocated a vector holding one element.
C11_Witness ==
    /\ last.op = "Reserve" /\ ~last.threw /\ last.realloc /\ last.pos = 2
    /\ Size(V1) = 1 /\ Capacity(V1) = 2

\* C12: an Insert(p, v) that returns, on a vector holding s with
\* 0 <= p <= Len(s), leaves s[0..p) \o <<v>> \o s[p..n), one element longer,
\* and returns the position p, whether it shifted in place or reallocated.
\* (last'.pos is p, last'.val is v, last'.ret the position returned.)
C12_InsertAtPosition ==
    [][(last'.op = "Insert" /\ ~last'.threw)
       => /\ Elems(mem', vec'[1]) = InsertAt(Elems(mem, V1), last'.pos, last'.val)
          /\ Size(vec'[1]) = Size(V1) + 1
          /\ last'.ret = last'.pos
          /\ At(mem', vec'[1], last'.ret) = last'.val
          /\ last'.realloc <=> Size(V1) = Capacity(V1)]_vars

\* An insertion in the middle of a full vector: [a, b] becomes [a, b, b]
\* with the new element at position 1, in new storage.
C12_Witness ==
    /\ last.op = "Insert" /\ ~last.threw /\ last.realloc
    /\ last.pos = 1 /\ last.val = "b" /\ last.ret = 1
    /\ ~failed /\ ref[1] = <<"a", "b", "b">> /\ Elems(mem, V1) = ref[1]
    /\ Capacity(V1) = 4

\* C13: an Erase(p) that returns, on a vector holding s with 0 <= p < Len(s),
\* leaves s[0..p) \o s[p+1..n), one element shorter, in the same storage
\* with the same capacity, and returns the position p: that of the element
\* that followed the erased one, or the end position when p was the last.
C13_EraseAtPosition ==
    [][(last'.op = "Erase" /\ ~last'.threw)
       => /\ Elems(mem', vec'[1]) = RemoveAt(Elems(mem, V1), last'.pos)
          /\ Size(vec'[1]) = Size(V1) - 1
          /\ Capacity(vec'[1]) = Capacity(V1)
          /\ vec'[1].data.buffer = V1.data.buffer
          /\ last'.ret = last'.pos
          /\ IF last'.pos = Size(V1) - 1
             THEN last'.ret = Size(vec'[1])
             ELSE At(mem', vec'[1], last'.ret) = At(mem, V1, last'.pos + 1)]_vars

\* The first of three elements erased: [a, b, a] becomes [b, a].
C13_Witness ==
    /\ last.op = "Erase" /\ ~last.threw /\ last.pos = 0 /\ last.ret = 0
    /\ ~failed /\ ref[1] = <<"b", "a">> /\ Elems(mem, V1) = ref[1]
    /\ Capacity(V1) = 4 /\ At(mem, V1, 2) = RAW

\* The calls that change the contents of the one vector they are made on.
Mutators == {"PushBack", "Insert", "Erase", "PopBack", "Write"}
Other(i) == 3 - i

\* C14: a copy construction gives the new vector the length and the element
\* values of its source in a block of its own and leaves the source alone;
\* the two never share a block; and an insert, erase, append, removal or
\* element write on one of them leaves the length, the capacity, the block
\* and every element value of the other as they were.
C14_CopyIsIndependent ==
    /\ []((vec[1].alive /\ vec[2].alive /\ vec[2].data.buffer # NULL)
            => vec[1].data.buffer # vec[2].data.buffer)
    /\ [][(last'.op = "CopyCtor" /\ ~last'.threw)
            => /\ Elems(mem', vec'[2]) = Elems(mem, vec[1])
               /\ Capacity(vec'[2]) = Size(vec[1])
               /\ vec'[1] = vec[1]
               /\ Elems(mem', vec'[1]) = Elems(mem, vec[1])]_vars
    /\ [][(last'.op \in Mutators /\ vec[Other(last'.id)].alive)
            => /\ vec'[Other(last'.id)] = vec[Other(last'.id)]
               /\ Elems(mem', vec'[Other(last'.id)]) = Elems(mem, vec[Other(last'.id)])]_vars

\* The original written to after the copy was made: the copy keeps [a, a].
C14_Witness ==
    /\ last.op = "Write" /\ last.id = 1 /\ last.pos = 0 /\ last.val = "b"
    /\ vec[2].alive
    /\ Elems(mem, vec[1]) = <<"b", "a">>
    /\ Elems(mem, vec[2]) = <<"a", "a">>
    /\ Capacity(vec[2]) = 2

CopyAssignStep(big) ==
    /\ last'.op = "CopyAssign" /\ last'.id # last'.src
    /\ big <=> Size(vec[last'.src]) > Capacity(vec[last'.id])

\* C16: a copy assignment from a source longer than the destination's
\* capacity either succeeds, and the destination has the length and the
\* element values of the source, or throws (the allocation or any one of
\* the copies failed) and leaves the destination with its length, capacity,
\* block and element values, the heap as it was, and nothing leaked.
C16_CopyAssignStrong ==
    [][CopyAssignStep(TRUE)
       => /\ vec'[last'.src] = vec[last'.src]
          /\ Elems(mem', vec'[last'.src]) = Elems(mem, vec[last'.src])
          /\ mem'.leaked = 0
          /\ IF last'.threw
             THEN /\ last'.fault \in {"alloc", "copy"}
                  /\ vec'[last'.id] = vec[last'.id]
                  /\ mem'.blocks = mem.blocks
                  /\ LiveCount(mem') = LiveCount(mem)
             ELSE /\ Elems(mem', vec'[last'.id]) = Elems(mem, vec[last'.src])
                  /\ Size(vec'[last'.id]) = Size(vec[last'.src])
                  /\ LiveCount(mem') = 2 * Size(vec[last'.src])]_vars

\* The second copy of [b, a] failed: the destination still holds [a] in its
\* block of one slot, and the block of the temporary is free again.
C16_Witness ==
    /\ last.op = "CopyAssign" /\ last.id = 1 /\ last.src = 2
    /\ last.threw /\ last.fault = "copy"
    /\ Elems(mem, vec[1]) = <<"a">> /\ Capacity(vec[1]) = 1
    /\ Elems(mem, vec[2]) = <<"b", "a">>
    /\ LiveCount(mem) = 3
    /\ Cardinality({b \in Blocks : mem.blocks[b].alloc}) = 2

\* C17: a copy assignment that returns, from a source no longer than the
\* destination's capacity, keeps the destination's block and capacity,
\* allocates and releases nothing, gives it the length and the element
\* values of the source, destroys the surplus elements of the destination
\* (each once: afterwards exactly the slots below the new length hold an
\* element, where exactly those below the old length did), and leaves the
\* source as it was; an assignment of a vector to itself changes nothing.
C17_CopyAssignInPlace ==
    /\ [][(CopyAssignStep(FALSE) /\ ~last'.threw)
          => /\ vec'[last'.id].data = vec[last'.id].data
             /\ {b \in Blocks : mem'.blocks[b].alloc} = {b \in Blocks : mem.blocks[b].alloc}
             /\ Size(vec'[last'.id]) = Size(vec[last'.src])
             /\ Elems(mem', vec'[last'.id]) = Elems(mem, vec[last'.src])
             /\ (\A k \in 0..(Capacity(vec[last'.id]) - 1) :
                    IsLive(At(mem, vec[last'.id], k)) <=> k < Size(vec[last'.id]))
                => (\A k \in 0..(Capacity(vec[last'.id]) - 1) :
                    IsLive(At(mem', vec'[last'.id], k)) <=> k < Size(vec[last'.src]))
             /\ mem'.leaked = 0 /\ ~mem'.badFree
             /\ vec'[last'.src] = vec[last'.src]
             /\ Elems(mem', vec'[last'.src]) = Elems(mem, vec[last'.src])]_vars
    /\ [][(last'.op = "CopyAssign" /\ last'.id = last'.src)
          => /\ ~last'.threw
             /\ vec' = vec /\ mem'.blocks = mem.blocks
             /\ mem'.leaked = 0]_vars

\* [a] assigned to a vector that held two elements in two slots: the
\* surplus element is destroyed, the block kept.
C17_Witness ==
    /\ last.op = "CopyAssign" /\ last.id = 2 /\ last.src = 1 /\ ~last.threw
    /\ Elems(mem, vec[1]) = <<"a">>
    /\ Elems(mem, vec[2]) = <<"a">> /\ Capacity(vec[2]) = 2
    /\ At(mem, vec[2], 1) = RAW

\* C18: when an Insert before the end of a vector with free capacity throws
\* (from the construction of the temporary, the move construction of the
\* last element into the tail slot, a move assignment of the backward shift,
\* or the final move assignment of the temporary), the vector has the length
\* and, at every position, the element value it had before the call, and
\* the slots from its length on are raw memory again.
C18_InPlaceInsertAllOrNothing ==
    [][(/\ last'.op = "Insert" /\ last'.threw /\ ~last'.realloc
        /\ last'.pos < Size(V1) /\ Size(V1) < Capacity(V1))
       => /\ SameContents(mem', vec'[1], mem, V1)
          /\ mem'.blocks = mem.blocks]_vars

\* C19: when Resize(new_size) with new_size above the capacity throws from
\* the default construction of a new element, the vector has the length,
\* the capacity and the element values it had before the call.
\* (last'.pos is new_size.)
C19_ResizeFailureKeepsState ==
    [][(/\ last'.op = "Resize" /\ last'.threw /\ last'.fault = "dflt"
        /\ last'.pos > Capacity(V1))
       => SameContents(mem', vec'[1], mem, V1)]_vars

AllocatedBlocks(m) == {b \in Blocks : m.blocks[b].alloc}

\* C20: over the public operations, none failing, and the destruction of
\* the vectors: no block is released twice and no destructor runs where no
\* element is; no block is released with an element still constructed in it;
\* the outstanding blocks are exactly the blocks of the living vectors, one
\* owner each, and the constructed elements exactly those below their
\* lengths; a destructor destroys the elements of its vector and releases
\* its block; and once every vector is destroyed no element is constructed
\* and no block is outstanding.
C20_DestroyedAndReleasedOnce ==
    /\ [](/\ ~mem.badFree /\ ~mem.badDestroy /\ mem.leaked = 0
          /\ AllocatedBlocks(mem) = {vec[i].data.buffer : i \in {j \in VecIds : vec[j].alive}} \ {NULL}
          /\ \A i, j \in VecIds :
                (i # j /\ vec[i].alive /\ vec[j].alive /\ vec[i].data.buffer # NULL)
                    => vec[i].data.buffer # vec[j].data.buffer
          /\ \A i \in VecIds : vec[i].alive =>
                \A k \in 0..(Capacity(vec[i]) - 1) :
                    IsLive(At(mem, vec[i], k)) <=> k < Size(vec[i])
          /\ (\A i \in VecIds : ~vec[i].alive)
                => (LiveCount(mem) = 0 /\ AllocatedBlocks(mem) = {}))
    /\ [][last'.op = "~Vector"
            => /\ LiveCount(mem') = LiveCount(mem) - last'.elements
               /\ Cardinality(AllocatedBlocks(mem')) = Cardinality(AllocatedBlocks(mem)) - last'.blocks
               /\ last'.elements = Size(vec[last'.id])
               /\ last'.blocks = 1 <=> Capacity(vec[last'.id]) > 0]_vars

\* The last living vector destroyed, with two elements in its block.
C20_Witness ==
    /\ last.op = "~Vector" /\ last.elements = 2 /\ last.blocks = 1
    /\ \A i \in VecIds : ~vec[i].alive
    /\ AllocatedBlocks(mem) = {} /\ LiveCount(mem) = 0

====
